---- MODULE Spec2Model ----
(***************************************************************************)
(* BEU result correction monitor (src/monitor.py): the availability        *)
(* tracker (_handle_website_status), the correction state machine          *)
(* (_process_result), the Telegram notifier (_send_telegram_message) and   *)
(* the run_monitor loop that drives them.                                  *)
(*                                                                         *)
(* Marks are sequences of one-character strings, so that str.isdigit() is  *)
(* computed character by character.  Times are whole seconds of            *)
(* time.time().                                                            *)
(***************************************************************************)
EXTENDS Integers, Sequences, FiniteSets, TLC

\* ---------------------------------------------------------------- constants
CHECK_INTERVAL == 30
SITE_DOWN_GRACE == 300
SITE_DOWN_REMINDER == 3600
MAX_TELEGRAM_RETRIES == 3

CURRENT_WRONG_VALUE == <<"N", "A">>
EXPECTED_MARK == <<"6", "8">>

\* Python's None for site_down_since (a time is a positive number)
None == -1
\* result["mark"] of a failed fetch, and the mark of a message that carries none
NoMark == <<"None">>

\* ------------------------------------------------------------------- bounds
\* iterations of the run_monitor loop that are explored
MaxChecks == 11

\* --------------------------------------------------------------- input sets
Digits == {"0", "1", "2", "3", "4", "5", "6", "7", "8", "9"}

\* cell texts the result page may show: placeholder, expected, another
\* number, a non-numeric text, an empty cell
Marks == {CURRENT_WRONG_VALUE, EXPECTED_MARK, <<"5", "5">>, <<"A", "B">>, <<>>}

\* what _fetch_result_page returns: success with the cell text, or failure
Results == [success : {TRUE}, mark : Marks] \cup {[success |-> FALSE, mark |-> NoMark]}

\* outcome of each POST of one _send_telegram_message call, by attempt:
\* HTTP 200, another HTTP status, or an exception (timeout, connection error)
SendOutcomes == [1..MAX_TELEGRAM_RETRIES -> {"ok", "http", "exc"}]

\* the Notifier's answers are an input of a step only when the step calls it
Unasked == [i \in 1..MAX_TELEGRAM_RETRIES |-> "ok"]
OutcomesFor(calls) == IF calls = <<>> THEN {Unasked} ELSE SendOutcomes

\* wall-clock time between two readings of time.time() in
\* _handle_website_status: the sleep of one iteration, or a whole reminder
\* interval, which is what 120 iterations that change no field (unreachable
\* probes before a reminder is due, failed fetches) add up to
Gaps == {CHECK_INTERVAL, SITE_DOWN_REMINDER}

\* SITE_DOWN_GRACE is a module constant edited in place and the spec's
\* configuration surface: the shipped 300 s, and a grace period of one poll
\* interval, the only kind the failure counter can reach
GraceSettings == {SITE_DOWN_GRACE, CHECK_INTERVAL}

\* the observation sequences of the spec's scenarios A, B and D
ScenarioA == <<CURRENT_WRONG_VALUE, CURRENT_WRONG_VALUE, EXPECTED_MARK,
               EXPECTED_MARK, EXPECTED_MARK, EXPECTED_MARK>>
ScenarioB == <<CURRENT_WRONG_VALUE, EXPECTED_MARK, CURRENT_WRONG_VALUE>>
ScenarioD == <<CURRENT_WRONG_VALUE, <<"5", "5">> >>
Scenarios == {ScenarioA, ScenarioB, ScenarioD}
ScenarioPrefixes == UNION {{SubSeq(q, 1, n) : n \in 0..Len(q)} : q \in Scenarios}
\* the observations so far follow no scenario
OffScenario == << <<"off">> >>

\* latest clock reading explored: one reminder interval plus the sleeps
Horizon == SITE_DOWN_REMINDER + (MaxChecks + 1) * CHECK_INTERVAL

VARIABLES
    pc,                   \* position in run_monitor: "start", "probe", "fetch",
                          \* "except", "sleep", and "stopped" once it was left
    now,                  \* time.time()
    site_down_grace,      \* the SITE_DOWN_GRACE setting of this run
    site_down_since,
    site_down_notified,
    correction_detected,
    verification_count,
    consecutive_failures,
    total_checks,
    is_accessible,        \* run_monitor's local: the last probe's outcome
    result_data,          \* run_monitor's local: the last fetched result
    sent,                 \* the _send_telegram_message calls of the last step
    unreachRun,           \* history: consecutive unreachable probes so far
    episodeDown,          \* history: DOWN messages of the current outage
    lastReminder,         \* history: time of the outage's last STILL_DOWN
    runDetected,          \* history: DETECTED messages of the current run
    runConfirmed,         \* history: CONFIRMED messages of the current run
    runConfirming,        \* history: confirming observations of the current run
    consecConfirming,     \* history: confirming observations in a row
    runChanged,           \* history: CHANGED messages of the current run
    runOpened,            \* history: what the first found value of the
                          \* current run sent ("silent" for nothing), "none"
                          \* while the run has no found value yet
    obsLog,               \* history: the marks observed so far, while they
                          \* follow a scenario (every fetch so far succeeded)
    evLog,                \* history: per observation of obsLog, the event
                          \* it raised or "-"
    caught,               \* the iteration went through `except Exception`
    iterLog,              \* history: the events sent in this iteration, in order
    stop                  \* where a stop signal ended the run, and the message
                          \* whose send it cut off

progVars == <<site_down_since, site_down_notified, correction_detected,
              verification_count, consecutive_failures, total_checks>>
availHist == <<unreachRun, episodeDown, lastReminder>>
corrHist == <<runDetected, runConfirmed, runConfirming, consecConfirming,
              runChanged, runOpened>>
scenHist == <<obsLog, evLog>>
NotStopped == [at |-> "-", pending |-> "-"]
vars == <<pc, now, site_down_grace, progVars, is_accessible, result_data, sent,
          availHist, corrHist, scenHist, caught, iterLog, stop>>

\* ------------------------------------------------------------------ helpers
\* str.isdigit(): non-empty and every character a digit
IsDigit(s) == Len(s) > 0 /\ \A i \in 1..Len(s) : s[i] \in Digits

\* the for loop of _send_telegram_message from attempt (0-based) on;
\* delivered counts the POSTs answered with HTTP 200
RECURSIVE attempt_loop(_, _)
attempt_loop(o, attempt) ==
    IF attempt >= MAX_TELEGRAM_RETRIES
    THEN [ret |-> FALSE, attempts |-> attempt, delivered |-> 0]
    ELSE IF o[attempt + 1] = "ok"
         THEN [ret |-> TRUE, attempts |-> attempt + 1, delivered |-> 1]
         ELSE attempt_loop(o, attempt + 1)

\* mutant: a 200 response does not end the loop
send_telegram_message_no_return(o) ==
    [ret |-> \E i \in 1..MAX_TELEGRAM_RETRIES : o[i] = "ok",
     attempts |-> MAX_TELEGRAM_RETRIES,
     delivered |-> Cardinality({i \in 1..MAX_TELEGRAM_RETRIES : o[i] = "ok"})]

\* mutant: no `except Exception` around the POST, the first exception ends
\* the call
send_telegram_message_uncaught(o) ==
    LET ends == {i \in 1..MAX_TELEGRAM_RETRIES : o[i] # "http"}
        first == CHOOSE i \in ends : \A j \in ends : i <= j
    IN  IF ends = {}
        THEN [ret |-> FALSE, attempts |-> MAX_TELEGRAM_RETRIES, delivered |-> 0]
        ELSE IF o[first] = "ok"
             THEN [ret |-> TRUE, attempts |-> first, delivered |-> 1]
             ELSE [ret |-> FALSE, attempts |-> first, delivered |-> 0]

send_telegram_message(o) == attempt_loop(o, 0)

\* one call of _send_telegram_message for a message of the given kind, with
\* the outcomes of the attempts it made
Message(event, mark, o) ==
    LET r == send_telegram_message(o)
    IN  [event |-> event, mark |-> mark, ret |-> r.ret,
         attempts |-> r.attempts, delivered |-> r.delivered,
         outcomes |-> SubSeq(o, 1, r.attempts)]

Emitted(log, event) == \E i \in 1..Len(log) : log[i].event = event
Count(log, event) == Cardinality({i \in 1..Len(log) : log[i].event = event})

\* ----------------------------------------------------- _handle_website_status
\* `not self.site_down_since`: None and 0 are both falsy
Falsy(since) == since = None \/ since = 0

\* the elif of the down branch
ReminderDue(since, notified, current_time) ==
    notified /\ (current_time - since) >= SITE_DOWN_REMINDER

\* mutant: the threshold is one failure, not the grace period
GraceReached_first_failure(failures, grace) == failures >= 1

\* consecutive_failures >= (SITE_DOWN_GRACE / CHECK_INTERVAL): the quotient is
\* a float, and f >= g / i is f * i >= g for a positive i
GraceReached(failures, grace) == failures * CHECK_INTERVAL >= grace

\* mutant: a recovery forgets `self.site_down_since = None`
handle_up_keeps_since(since, notified, failures, o) ==
    IF since # None
    THEN [since |-> since, notified |-> FALSE, failures |-> 0,
          sent |-> <<Message("BACK_UP", NoMark, o)>>]
    ELSE [since |-> since, notified |-> notified, failures |-> 0,
          sent |-> <<>>]

\* mutant: every unreachable probe increments consecutive_failures
handle_down_counts_every_failure(since, notified, failures, current_time, grace, o) ==
    IF Falsy(since)
    THEN LET notify == GraceReached(failures + 1, grace) /\ ~notified
         IN  [since |-> current_time,
              notified |-> (notified \/ notify),
              failures |-> failures + 1,
              sent |-> IF notify THEN <<Message("DOWN", NoMark, o)>> ELSE <<>>]
    ELSE [since |-> since,
          notified |-> notified,
          failures |-> failures + 1,
          sent |-> IF ReminderDue(since, notified, current_time)
                   THEN <<Message("STILL_DOWN", NoMark, o)>>
                   ELSE <<>>]

\* is_accessible == False
handle_down(since, notified, failures, current_time, grace, o) ==
    IF Falsy(since)
    THEN LET f == failures + 1
             notify == GraceReached(f, grace) /\ ~notified
         IN  [since |-> current_time,
              notified |-> (notified \/ notify),
              failures |-> f,
              sent |-> IF notify THEN <<Message("DOWN", NoMark, o)>> ELSE <<>>]
    ELSE [since |-> since,
          notified |-> notified,
          failures |-> failures,
          sent |-> IF ReminderDue(since, notified, current_time)
                   THEN <<Message("STILL_DOWN", NoMark, o)>>
                   ELSE <<>>]

\* mutant: a recovery forgets `self.site_down_notified = False`
handle_up_keeps_notified(since, notified, failures, o) ==
    IF since # None
    THEN [since |-> None, notified |-> notified, failures |-> 0,
          sent |-> <<Message("BACK_UP", NoMark, o)>>]
    ELSE [since |-> since, notified |-> notified, failures |-> 0,
          sent |-> <<>>]

\* is_accessible == True
handle_up(since, notified, failures, o) ==
    IF since # None
    THEN [since |-> None, notified |-> FALSE, failures |-> 0,
          sent |-> <<Message("BACK_UP", NoMark, o)>>]
    ELSE [since |-> since, notified |-> notified, failures |-> 0,
          sent |-> <<>>]

handle_website_status(since, notified, failures, accessible, current_time, grace, o) ==
    IF ~accessible
    THEN handle_down(since, notified, failures, current_time, grace, o)
    ELSE handle_up(since, notified, failures, o)

\* ------------------------------------------------------------ _process_result
\* mutant: only the expected mark is a correction
is_corrected_exact_only(mark) == mark = EXPECTED_MARK

\* is_corrected: the expected mark, or any number that is not the placeholder
is_corrected(mark) ==
    \/ mark = EXPECTED_MARK
    \/ IsDigit(mark) /\ mark # CURRENT_WRONG_VALUE

\* mutant: the `if not self.correction_detected` test is missing
on_corrected_unguarded(detected, count, mark, o) ==
    [detected |-> TRUE, count |-> 1,
     sent |-> <<Message("DETECTED", mark, o)>>]

\* mutant: `>= 3` for `== 3`
on_corrected_atleast(detected, count, mark, o) ==
    IF ~detected
    THEN [detected |-> TRUE, count |-> 1,
          sent |-> <<Message("DETECTED", mark, o)>>]
    ELSE [detected |-> detected, count |-> count + 1,
          sent |-> IF count + 1 >= 3
                   THEN <<Message("CONFIRMED", mark, o)>>
                   ELSE <<>>]

\* mutant: the first detection is recognised by a verification count of 0
on_corrected_detects_on_zero_count(detected, count, mark, o) ==
    IF count = 0
    THEN [detected |-> TRUE, count |-> 1,
          sent |-> <<Message("DETECTED", mark, o)>>]
    ELSE [detected |-> detected, count |-> count + 1,
          sent |-> IF count + 1 = 3
                   THEN <<Message("CONFIRMED", mark, o)>>
                   ELSE <<>>]

\* if is_corrected: first detection, or one more verification.  (The proof
\* screenshot of the first detection goes through _send_screenshot, not
\* through _send_telegram_message, and touches no field.)
on_corrected(detected, count, mark, o) ==
    IF ~detected
    THEN [detected |-> TRUE, count |-> 1,
          sent |-> <<Message("DETECTED", mark, o)>>]
    ELSE [detected |-> detected, count |-> count + 1,
          sent |-> IF count + 1 = 3
                   THEN <<Message("CONFIRMED", mark, o)>>
                   ELSE <<>>]

\* mutant: the reversion forgets `self.verification_count = 0`
on_placeholder_keeps_count(detected, count, o) ==
    IF detected
    THEN [detected |-> FALSE, count |-> count,
          sent |-> <<Message("REVERTED", CURRENT_WRONG_VALUE, o)>>]
    ELSE [detected |-> detected, count |-> count, sent |-> <<>>]

\* mutant: the reset waits for the REVERTED message to be delivered
on_placeholder_needs_delivery(detected, count, o) ==
    IF detected
    THEN LET m == Message("REVERTED", CURRENT_WRONG_VALUE, o)
         IN  IF m.ret
             THEN [detected |-> FALSE, count |-> 0, sent |-> <<m>>]
             ELSE [detected |-> detected, count |-> count, sent |-> <<m>>]
    ELSE [detected |-> detected, count |-> count, sent |-> <<>>]

\* elif current_mark == CURRENT_WRONG_VALUE
on_placeholder(detected, count, o) ==
    IF detected
    THEN [detected |-> FALSE, count |-> 0,
          sent |-> <<Message("REVERTED", CURRENT_WRONG_VALUE, o)>>]
    ELSE [detected |-> detected, count |-> count, sent |-> <<>>]

\* mutant: a different value starts the verification count
on_other_counts(detected, count, mark, o) ==
    IF ~detected
    THEN [detected |-> TRUE, count |-> 1,
          sent |-> <<Message("CHANGED", mark, o)>>]
    ELSE [detected |-> detected, count |-> count, sent |-> <<>>]

\* else: a different value
on_other(detected, count, mark, o) ==
    IF ~detected
    THEN [detected |-> TRUE, count |-> count,
          sent |-> <<Message("CHANGED", mark, o)>>]
    ELSE [detected |-> detected, count |-> count, sent |-> <<>>]

\* the body of _process_result after its `if not result_data["success"]`
process_found(detected, count, mark, o) ==
    IF is_corrected(mark)
    THEN on_corrected(detected, count, mark, o)
    ELSE IF mark = CURRENT_WRONG_VALUE
         THEN on_placeholder(detected, count, o)
         ELSE on_other(detected, count, mark, o)

\* mutant: a failed fetch is read as the placeholder
process_result_failed_is_placeholder(detected, count, result, o) ==
    IF ~result.success
    THEN on_placeholder(detected, count, o)
    ELSE process_found(detected, count, result.mark, o)

process_result(detected, count, result, o) ==
    IF ~result.success
    THEN [detected |-> detected, count |-> count, sent |-> <<>>]
    ELSE process_found(detected, count, result.mark, o)

\* ------------------------------------------------- observation classes (spec)
\* a value that counts toward confirmation: the expected one or any number
Confirming(mark) == mark = EXPECTED_MARK \/ IsDigit(mark)

\* ------------------------------------------------------------ specification
Init ==
    /\ pc = "start"
    /\ now = CHECK_INTERVAL
    /\ site_down_grace = SITE_DOWN_GRACE
    /\ site_down_since = None
    /\ site_down_notified = FALSE
    /\ correction_detected = FALSE
    /\ verification_count = 0
    /\ consecutive_failures = 0
    /\ total_checks = 0
    /\ is_accessible = TRUE
    /\ result_data = [success |-> FALSE, mark |-> NoMark]
    /\ sent = <<>>
    /\ unreachRun = 0
    /\ episodeDown = 0
    /\ lastReminder = None
    /\ runDetected = 0
    /\ runConfirmed = 0
    /\ runConfirming = 0
    /\ runChanged = 0
    /\ runOpened = "none"
    /\ consecConfirming = 0
    /\ obsLog = <<>>
    /\ evLog = <<>>
    /\ caught = FALSE
    /\ iterLog = <<>>
    /\ stop = NotStopped

\* run_monitor's startup notification
Startup(o) ==
    /\ pc = "start"
    /\ sent' = <<Message("STARTED", NoMark, o)>>
    /\ pc' = "probe"
    /\ UNCHANGED <<now, site_down_grace, progVars, is_accessible, result_data,
                   availHist, corrHist, scenHist, caught, iterLog, stop>>

\* mutant: the `continue` of an unreachable site is missing
after_probe_always_fetches(accessible) == "fetch"

\* `if not is_accessible: ... sleep; continue`, else on to the fetch
after_probe(accessible) == IF accessible THEN "fetch" ELSE "sleep"

\* mutant: the loop has no `except Exception`, the failure leaves run_monitor
except_clause_missing == "stopped"

\* `except Exception as e: log(...)`, then the sleep at the end of the loop
except_clause == "sleep"

\* the events of a list of _send_telegram_message calls
EventsOf(calls) == [i \in 1..Len(calls) |-> calls[i].event]

\* one probe of the loop: total_checks += 1, _check_website_availability and
\* _handle_website_status; an unreachable site skips the rest of the iteration
Probe(accessible) ==
    /\ pc = "probe"
    /\ total_checks < MaxChecks
    /\ total_checks' = total_checks + 1
    /\ is_accessible' = accessible
    /\ \E o \in OutcomesFor(handle_website_status(
                    site_down_since, site_down_notified, consecutive_failures,
                    accessible, now, site_down_grace, Unasked).sent) :
       LET r == handle_website_status(site_down_since, site_down_notified,
                                      consecutive_failures, accessible, now,
                                      site_down_grace, o)
       IN  /\ site_down_since' = r.since
           /\ site_down_notified' = r.notified
           /\ consecutive_failures' = r.failures
           /\ sent' = r.sent
           /\ iterLog' = EventsOf(r.sent)
           /\ unreachRun' = IF accessible THEN 0 ELSE unreachRun + 1
           /\ episodeDown' = IF accessible THEN 0
                             ELSE episodeDown + Count(r.sent, "DOWN")
           /\ lastReminder' = IF accessible THEN None
                              ELSE IF Emitted(r.sent, "STILL_DOWN") THEN now
                              ELSE lastReminder
    /\ pc' = after_probe(accessible)
    /\ caught' = FALSE
    /\ obsLog' = IF accessible THEN obsLog ELSE OffScenario
    /\ evLog' = IF accessible THEN evLog ELSE <<>>
    /\ UNCHANGED <<now, site_down_grace, correction_detected, verification_count,
                   result_data, corrHist, stop>>

ProbeUnreachable == Probe(FALSE)

ProbeReachable == Probe(TRUE)

\* _fetch_result_page raises (async_playwright() is entered outside its try):
\* result_data is not assigned, _process_result is not run
FetchRaises ==
    /\ pc = "fetch"
    /\ pc' = "except"
    /\ caught' = TRUE
    /\ sent' = <<>>
    /\ obsLog' = OffScenario
    /\ evLog' = <<>>
    /\ UNCHANGED <<now, site_down_grace, progVars, is_accessible, result_data,
                   availHist, corrHist, iterLog, stop>>

\* _capture_screenshot after a first detection: it returns (a screenshot or
\* None), or it raises (async_playwright() is entered outside its try)
ProofOutcomes(calls) ==
    IF Emitted(calls, "DETECTED") THEN {"returned", "raised"} ELSE {"returned"}

\* _fetch_result_page and _process_result on what it returned
FetchAndProcess(result) ==
    /\ pc = "fetch"
    /\ result_data' = result
    /\ \E o \in OutcomesFor(process_result(correction_detected, verification_count,
                                           result, Unasked).sent) :
       LET r == process_result(correction_detected, verification_count, result, o)
           value == result.success /\ result.mark # CURRENT_WRONG_VALUE
           placeholder == result.success /\ result.mark = CURRENT_WRONG_VALUE
           confirming == value /\ Confirming(result.mark)
       IN  /\ correction_detected' = r.detected
           /\ verification_count' = r.count
           /\ sent' = r.sent
           /\ iterLog' = iterLog \o EventsOf(r.sent)
           /\ \E proof \in ProofOutcomes(r.sent) :
                 /\ pc' = IF proof = "raised" THEN "except" ELSE "sleep"
                 /\ caught' = (proof = "raised")
           /\ runDetected' = IF placeholder THEN 0
                             ELSE runDetected + Count(r.sent, "DETECTED")
           /\ runConfirmed' = IF placeholder THEN 0
                              ELSE runConfirmed + Count(r.sent, "CONFIRMED")
           /\ runConfirming' = IF placeholder THEN 0
                               ELSE IF confirming THEN runConfirming + 1
                               ELSE runConfirming
           /\ runChanged' = IF placeholder THEN 0
                            ELSE runChanged + Count(r.sent, "CHANGED")
           /\ runOpened' = IF placeholder THEN "none"
                           ELSE IF value /\ runOpened = "none"
                                THEN IF r.sent = <<>> THEN "silent"
                                     ELSE r.sent[1].event
                                ELSE runOpened
           /\ consecConfirming' = IF confirming THEN consecConfirming + 1
                                  ELSE IF result.success THEN 0
                                  ELSE consecConfirming
           /\ LET onTrack == /\ result.success
                             /\ Append(obsLog, result.mark) \in ScenarioPrefixes
               IN  /\ obsLog' = IF onTrack THEN Append(obsLog, result.mark)
                                ELSE OffScenario
                   /\ evLog' = IF ~onTrack THEN <<>>
                               ELSE IF r.sent = <<>> THEN Append(evLog, "-")
                               ELSE Append(evLog, r.sent[1].event)
    /\ UNCHANGED <<now, site_down_grace, site_down_since, site_down_notified,
                   consecutive_failures, total_checks, is_accessible, availHist,
                   stop>>

\* the except clause of the loop: log the failure, go on to the sleep
Catch ==
    /\ pc = "except"
    /\ pc' = except_clause
    /\ sent' = <<>>
    /\ UNCHANGED <<now, site_down_grace, progVars, is_accessible, result_data,
                   availHist, corrHist, scenHist, caught, iterLog, stop>>

\* asyncio.sleep(CHECK_INTERVAL), at either of its two places in the loop
Sleep(gap) ==
    /\ pc = "sleep"
    /\ now + gap <= Horizon
    /\ now' = now + gap
    /\ pc' = "probe"
    /\ sent' = <<>>
    /\ UNCHANGED <<site_down_grace, progVars, is_accessible, result_data,
                   availHist, corrHist, scenHist, caught, iterLog, stop>>

Next ==
    \/ \E o \in SendOutcomes : Startup(o)
    \/ ProbeUnreachable
    \/ ProbeReachable
    \/ FetchRaises
    \/ \E result \in Results : FetchAndProcess(result)
    \/ Catch
    \/ \E gap \in Gaps : Sleep(gap)

Spec == Init /\ [][Next]_vars

\* the same program started with either grace setting
InitTuned ==
    \E g \in GraceSettings :
        /\ site_down_grace = g
        /\ pc = "start"
        /\ now = CHECK_INTERVAL
        /\ site_down_since = None
        /\ site_down_notified = FALSE
        /\ correction_detected = FALSE
        /\ verification_count = 0
        /\ consecutive_failures = 0
        /\ total_checks = 0
        /\ is_accessible = TRUE
        /\ result_data = [success |-> FALSE, mark |-> NoMark]
        /\ sent = <<>>
        /\ unreachRun = 0
        /\ episodeDown = 0
        /\ lastReminder = None
        /\ runDetected = 0
        /\ runConfirmed = 0
        /\ runConfirming = 0
        /\ runChanged = 0
        /\ runOpened = "none"
        /\ consecConfirming = 0
        /\ obsLog = <<>>
        /\ evLog = <<>>
        /\ caught = FALSE
        /\ iterLog = <<>>
        /\ stop = NotStopped

SpecTuned == InitTuned /\ [][Next]_vars

\* ===================================================================== claims
\* the last step ran _process_result (the probe before it was reachable)
JustProcessed == pc = "sleep" /\ is_accessible /\ ~caught

\* the last step ran _handle_website_status
\* _fetch_result_page raised: the except clause is entered with no call made
RaisedInFetch == pc = "except" /\ sent = <<>>
JustProbed == pc = "fetch" \/ (pc = "sleep" /\ ~is_accessible)

CorrectionEvents == {"DETECTED", "CONFIRMED", "REVERTED", "CHANGED"}
AvailabilityEvents == {"DOWN", "STILL_DOWN", "BACK_UP"}

\* C1: DETECTED is sent at most once in a maximal run of non-placeholder
\* observed values: while correction_detected is true, no step of
\* _process_result sends DETECTED, whatever it is given.
T_C1 ==
    /\ [](runDetected <= 1)
    /\ [][(pc = "fetch" /\ correction_detected) => ~Emitted(sent', "DETECTED")]_vars

\* the corrected value was returned four times in a run with one DETECTED
W_C1 == runDetected = 1 /\ verification_count >= 4

\* C2 as stated: CONFIRMED is sent exactly on the 3rd confirming observation
\* in a row
CX_C2 ==
    JustProcessed =>
        (Emitted(sent, "CONFIRMED") <=>
            /\ result_data.success
            /\ Confirming(result_data.mark)
            /\ consecConfirming = 3)

\* C2 amended: CONFIRMED is sent exactly on the 3rd confirming observation of
\* the run, whether or not non-numeric values or failed fetches came between
\* the three, with the observed mark, and never again in the run; scenario A
\* raises DETECTED on the first 68 and CONFIRMED on the third.
T_C2 ==
    /\ Emitted(sent, "CONFIRMED") => JustProcessed
    /\ JustProcessed =>
        (Emitted(sent, "CONFIRMED") <=>
            /\ result_data.success
            /\ Confirming(result_data.mark)
            /\ runConfirming = 3)
    /\ Emitted(sent, "CONFIRMED") => sent[1].mark = result_data.mark
    /\ runConfirmed = (IF runConfirming >= 3 THEN 1 ELSE 0)
    /\ obsLog = ScenarioA =>
           evLog = <<"-", "-", "DETECTED", "-", "CONFIRMED", "-">>

\* scenario A has run to its sixth observation
W_C2 == obsLog = ScenarioA /\ verification_count = 4 /\ runConfirmed = 1

\* C3: a failed fetch leaves correction_detected and verification_count as
\* they are and sends nothing.
T_C3 ==
    [][(pc = "fetch" /\ ~result_data'.success) =>
          /\ correction_detected' = correction_detected
          /\ verification_count' = verification_count
          /\ sent' = <<>>]_vars

\* a fetch failed in the middle of a correction episode
W_C3 ==
    /\ JustProcessed
    /\ ~result_data.success
    /\ correction_detected
    /\ verification_count = 2

\* C4: REVERTED is sent exactly when the placeholder is observed while
\* correction_detected is true, and that step clears correction_detected and
\* verification_count; the placeholder observed while correction_detected is
\* false sends nothing and changes neither; scenario B raises DETECTED, then
\* REVERTED.
T_C4 ==
    /\ [][pc = "fetch" =>
            LET placeholder == /\ result_data'.success
                               /\ result_data'.mark = CURRENT_WRONG_VALUE
            IN  /\ Emitted(sent', "REVERTED") <=> (placeholder /\ correction_detected)
                /\ Emitted(sent', "REVERTED") =>
                       (~correction_detected' /\ verification_count' = 0)
                /\ (placeholder /\ ~correction_detected) =>
                       /\ sent' = <<>>
                       /\ ~correction_detected'
                       /\ verification_count' = verification_count]_vars
    /\ [](Emitted(sent, "REVERTED") => JustProcessed)
    /\ [](obsLog = ScenarioB => evLog = <<"-", "DETECTED", "REVERTED">>)

\* scenario B has run to its reversion
W_C4 == obsLog = ScenarioB /\ Emitted(sent, "REVERTED") /\ ~correction_detected

\* ceil(a / b) for positive b
CeilDiv(a, b) == (a + b - 1) \div b

\* C5 as stated: once the consecutive unreachable probes times the poll
\* interval reach the grace period (10 probes with the shipped settings), DOWN
\* has been sent for the outage and site_down_notified is true.
CX_C5 ==
    unreachRun * CHECK_INTERVAL >= site_down_grace =>
        (site_down_notified /\ episodeDown = 1)

\* C6: DOWN is sent only by an unreachable probe that is at least the
\* ceil(grace / interval)-th in a row, and at most once per outage.
T_C6 ==
    /\ Emitted(sent, "DOWN") =>
           /\ JustProbed
           /\ ~is_accessible
           /\ unreachRun >= CeilDiv(site_down_grace, CHECK_INTERVAL)
    /\ episodeDown <= 1

\* DOWN has just been sent
W_C6 == Emitted(sent, "DOWN") /\ site_down_notified /\ episodeDown = 1

\* C7 as stated: the reachable probe that ends an outage shorter than the
\* grace period, for which no DOWN was sent, sends nothing.
CX_C7 ==
    [][(/\ pc = "probe"
        /\ is_accessible'
        /\ site_down_since # None
        /\ now - site_down_since < site_down_grace
        /\ unreachRun < CeilDiv(site_down_grace, CHECK_INTERVAL)
        /\ episodeDown = 0) => sent' = <<>>]_vars

\* C8: a reachable probe sends BACK_UP exactly when site_down_since is set,
\* and then clears site_down_since, site_down_notified and
\* consecutive_failures; with site_down_since absent it sends nothing and only
\* zeroes consecutive_failures.  So BACK_UP follows the first reachable probe
\* after an unreachable one and no reachable probe after a reachable one.
T_C8 ==
    /\ [][(pc = "probe" /\ is_accessible') =>
            IF site_down_since # None
            THEN /\ Len(sent') = 1
                 /\ sent'[1].event = "BACK_UP"
                 /\ site_down_since' = None
                 /\ ~site_down_notified'
                 /\ consecutive_failures' = 0
            ELSE /\ sent' = <<>>
                 /\ site_down_since' = None
                 /\ site_down_notified' = site_down_notified
                 /\ consecutive_failures' = 0]_vars
    /\ [][(pc = "probe" /\ is_accessible' /\ total_checks > 0) =>
            (Emitted(sent', "BACK_UP") <=> ~is_accessible)]_vars
    /\ [](Emitted(sent, "BACK_UP") => (JustProbed /\ is_accessible))

\* BACK_UP has just been sent for an outage that had been reported
W_C8 ==
    /\ Emitted(sent, "BACK_UP")
    /\ site_down_grace = CHECK_INTERVAL
    /\ site_down_since = None
    /\ ~site_down_notified
    /\ consecutive_failures = 0

LogicalEvents == CorrectionEvents \cup AvailabilityEvents

\* C9 as stated: every event the engine decides on is delivered exactly once.
CX_C9 ==
    \A i \in 1..Len(sent) :
        sent[i].event \in LogicalEvents => sent[i].delivered = 1

\* C9 amended: a step decides on at most one event and makes one
\* _send_telegram_message call for it, which stops at the first HTTP 200: the
\* message is acknowledged at most once, once when one of its at most 3
\* attempts gets HTTP 200 and not at all when all 3 fail.  The state change of
\* the event is made either way, and the event is not sent again.
T_C9 ==
    /\ Len(sent) <= 1
    /\ \A i \in 1..Len(sent) :
        LET m == sent[i]
            ok == {k \in 1..Len(m.outcomes) : m.outcomes[k] = "ok"}
        IN  /\ m.delivered = Cardinality(ok)
            /\ m.delivered <= 1
            /\ m.attempts = Len(m.outcomes)
            /\ m.attempts \in 1..MAX_TELEGRAM_RETRIES
            /\ m.delivered = 0 <=> (m.attempts = MAX_TELEGRAM_RETRIES /\ ok = {})
            /\ m.ret <=> m.delivered = 1
    /\ Emitted(sent, "DETECTED") => (correction_detected /\ verification_count = 1)
    /\ Emitted(sent, "CHANGED") => correction_detected
    /\ Emitted(sent, "CONFIRMED") => verification_count = 3
    /\ Emitted(sent, "REVERTED") => (~correction_detected /\ verification_count = 0)
    /\ Emitted(sent, "BACK_UP") => site_down_since = None
    /\ runDetected <= 1

\* DETECTED was decided on and all three attempts to send it failed
W_C9 ==
    /\ Emitted(sent, "DETECTED")
    /\ sent[1].delivered = 0
    /\ sent[1].attempts = MAX_TELEGRAM_RETRIES
    /\ correction_detected

T_C11 ==
    /\ \A i, j \in 1..Len(iterLog) :
          (iterLog[i] \in AvailabilityEvents /\ iterLog[j] \in CorrectionEvents)
              => i < j
    /\ (\E i \in 1..Len(iterLog) : iterLog[i] \in {"DOWN", "STILL_DOWN"})
          => \A j \in 1..Len(iterLog) : iterLog[j] \notin CorrectionEvents

W_C11 == iterLog = <<"BACK_UP", "DETECTED">>

\* ----- C12 ---------------------------------------------------------------
\* the scheduling of the loop: the event loop resumes the one coroutine, every
\* await of a step returns, so a step that can be taken is taken
SpecFair == Init /\ [][Next]_vars /\ WF_vars(Next)

IterationOver == pc \in {"except", "sleep"}

\* C12: a failure raised inside an iteration is caught inside it, the loop
\* then sleeps; nothing in the steady state makes the loop end; after every
\* iteration the loop is eventually back at its top, where the only step there
\* is begins the next iteration.
T_C12 ==
    /\ [][pc = "except" => (pc' = "sleep" /\ UNCHANGED progVars)]_vars
    /\ [](pc # "stopped")
    /\ [][pc = "probe" => total_checks' = total_checks + 1]_vars
    /\ IterationOver ~> (pc = "probe")

W_C12 == caught /\ pc = "probe" /\ total_checks >= 2 /\ total_checks < MaxChecks

\* ----- C13 ---------------------------------------------------------------
\* a send that is delivered at once, and one that fails for good
Delivered == [i \in 1..MAX_TELEGRAM_RETRIES |-> "ok"]
Failed == [i \in 1..MAX_TELEGRAM_RETRIES |-> IF i = 2 THEN "exc" ELSE "http"]

\* C13: whether a send is delivered or fails makes no difference to the state
\* machines: for every state and observation both handlers leave the same
\* correction fields and the same availability fields, and make the same
\* calls, under either outcome; and the fields after each handler of the run
\* are the ones the handler computes when the send is delivered.
T_C13 ==
    /\ [](\A result \in Results :
            LET d == process_result(correction_detected, verification_count,
                                    result, Delivered)
                f == process_result(correction_detected, verification_count,
                                    result, Failed)
            IN  /\ d.detected = f.detected
                /\ d.count = f.count
                /\ EventsOf(d.sent) = EventsOf(f.sent))
    /\ [](\A accessible \in BOOLEAN :
            LET d == handle_website_status(site_down_since, site_down_notified,
                        consecutive_failures, accessible, now, site_down_grace,
                        Delivered)
                f == handle_website_status(site_down_since, site_down_notified,
                        consecutive_failures, accessible, now, site_down_grace,
                        Failed)
            IN  /\ d.since = f.since
                /\ d.notified = f.notified
                /\ d.failures = f.failures
                /\ EventsOf(d.sent) = EventsOf(f.sent))
    /\ [][(pc = "fetch" /\ ~RaisedInFetch')
            => LET d == process_result(correction_detected, verification_count,
                                       result_data', Delivered)
               IN  /\ correction_detected' = d.detected
                   /\ verification_count' = d.count]_vars
    /\ [][pc = "probe"
            => LET d == handle_website_status(site_down_since, site_down_notified,
                          consecutive_failures, is_accessible', now,
                          site_down_grace, Delivered)
               IN  /\ site_down_since' = d.since
                   /\ site_down_notified' = d.notified
                   /\ consecutive_failures' = d.failures]_vars

W_C13 ==
    /\ Emitted(sent, "REVERTED")
    /\ ~sent[1].ret
    /\ ~correction_detected
    /\ verification_count = 0
    /\ site_down_grace = CHECK_INTERVAL

\* ----- C14 ---------------------------------------------------------------
\* A stop signal (SIGINT): asyncio.run cancels the main task, or the
\* interpreter raises KeyboardInterrupt in it; either is a BaseException, which
\* `except Exception` of the loop and of the helpers lets through to main.
\* It arrives wherever the coroutine is waiting: the awaits of the sleep, of
\* the probe, of the fetch, and of a send inside a handler.

\* _handle_website_status up to the await of its send: the fields as assigned
\* before it, and the message being sent ("-" when the handler sends nothing)
handle_website_status_cut(since, notified, failures, accessible, current_time, grace) ==
    IF ~accessible
    THEN IF Falsy(since)
         THEN [since |-> current_time, notified |-> notified,
               failures |-> failures + 1,
               pending |-> IF GraceReached(failures + 1, grace) /\ ~notified
                           THEN "DOWN" ELSE "-"]
         ELSE [since |-> since, notified |-> notified, failures |-> failures,
               pending |-> IF ReminderDue(since, notified, current_time)
                           THEN "STILL_DOWN" ELSE "-"]
    ELSE [since |-> since, notified |-> notified, failures |-> failures,
          pending |-> IF since # None THEN "BACK_UP" ELSE "-"]

\* _process_result up to the await of its send
process_result_cut(detected, count, result) ==
    IF ~result.success
    THEN [detected |-> detected, count |-> count, pending |-> "-"]
    ELSE IF is_corrected(result.mark)
         THEN IF ~detected
              THEN [detected |-> TRUE, count |-> 1, pending |-> "DETECTED"]
              ELSE [detected |-> detected, count |-> count + 1,
                    pending |-> IF count + 1 = 3 THEN "CONFIRMED" ELSE "-"]
         ELSE IF result.mark = CURRENT_WRONG_VALUE
              THEN [detected |-> detected, count |-> count,
                    pending |-> IF detected THEN "REVERTED" ELSE "-"]
              ELSE [detected |-> detected, count |-> count,
                    pending |-> IF ~detected THEN "CHANGED" ELSE "-"]

\* the signal arrives during asyncio.sleep(CHECK_INTERVAL)
StopInSleep ==
    /\ pc = "sleep"
    /\ pc' = "stopped"
    /\ stop' = [at |-> "sleep", pending |-> "-"]
    /\ sent' = <<>>
    /\ UNCHANGED <<now, site_down_grace, progVars, is_accessible, result_data,
                   availHist, corrHist, scenHist, caught, iterLog>>

\* the signal arrives during the probe, after `self.total_checks += 1`
StopInProbe ==
    /\ pc = "probe"
    /\ total_checks < MaxChecks
    /\ total_checks' = total_checks + 1
    /\ pc' = "stopped"
    /\ stop' = [at |-> "probe", pending |-> "-"]
    /\ sent' = <<>>
    /\ UNCHANGED <<now, site_down_grace, site_down_since, site_down_notified,
                   correction_detected, verification_count, consecutive_failures,
                   is_accessible, result_data, availHist, corrHist, scenHist,
                   caught, iterLog>>

\* the signal arrives during the send of _handle_website_status
StopInHandle(accessible) ==
    /\ pc = "probe"
    /\ total_checks < MaxChecks
    /\ LET r == handle_website_status_cut(site_down_since, site_down_notified,
                    consecutive_failures, accessible, now, site_down_grace)
       IN  /\ r.pending # "-"
           /\ site_down_since' = r.since
           /\ site_down_notified' = r.notified
           /\ consecutive_failures' = r.failures
           /\ stop' = [at |-> "handle", pending |-> r.pending]
    /\ total_checks' = total_checks + 1
    /\ is_accessible' = accessible
    /\ pc' = "stopped"
    /\ sent' = <<>>
    /\ UNCHANGED <<now, site_down_grace, correction_detected, verification_count,
                   result_data, availHist, corrHist, scenHist, caught, iterLog>>

\* the signal arrives during _fetch_result_page
StopInFetch ==
    /\ pc = "fetch"
    /\ pc' = "stopped"
    /\ stop' = [at |-> "fetch", pending |-> "-"]
    /\ sent' = <<>>
    /\ UNCHANGED <<now, site_down_grace, progVars, is_accessible, result_data,
                   availHist, corrHist, scenHist, caught, iterLog>>

\* the signal arrives during the send of _process_result
StopInProcess(result) ==
    /\ pc = "fetch"
    /\ LET r == process_result_cut(correction_detected, verification_count, result)
       IN  /\ r.pending # "-"
           /\ correction_detected' = r.detected
           /\ verification_count' = r.count
           /\ stop' = [at |-> "process", pending |-> r.pending]
    /\ result_data' = result
    /\ pc' = "stopped"
    /\ sent' = <<>>
    /\ UNCHANGED <<now, site_down_grace, site_down_since, site_down_notified,
                   consecutive_failures, total_checks, is_accessible, availHist,
                   corrHist, scenHist, caught, iterLog>>

NextSignal ==
    \/ Next
    \/ StopInSleep
    \/ StopInProbe
    \/ \E accessible \in BOOLEAN : StopInHandle(accessible)
    \/ StopInFetch
    \/ \E result \in Results : StopInProcess(result)

SpecSignal == Init /\ [][NextSignal]_vars

\* C14: a stop signal takes effect only at the sleep between iterations, never
\* in the middle of one, so the run never ends with an iteration left partly
\* executed (a field set whose notification is not sent yet, or the reverse).
CX_C14 == pc = "stopped" => (stop.at = "sleep" /\ stop.pending = "-")

\* ----- C15 ---------------------------------------------------------------
OtherNumber == <<"5", "5">>

\* C15: a number that is neither the placeholder nor the expected mark is
\* treated exactly like the expected mark: in every state the handler makes
\* the same change of the fields and sends the same kind of event for both,
\* each carrying the value observed; and [NA, 55] emits DETECTED(55).
T_C15 ==
    /\ \A o \in {Delivered, Failed} :
          LET n == process_found(correction_detected, verification_count,
                                 OtherNumber, o)
              e == process_found(correction_detected, verification_count,
                                 EXPECTED_MARK, o)
          IN  /\ n.detected = e.detected
              /\ n.count = e.count
              /\ EventsOf(n.sent) = EventsOf(e.sent)
              /\ \A i \in 1..Len(n.sent) :
                    n.sent[i].mark = OtherNumber /\ e.sent[i].mark = EXPECTED_MARK
    /\ (JustProcessed /\ result_data.success /\ result_data.mark = OtherNumber)
          => /\ correction_detected
             /\ verification_count >= 1
             /\ \A i \in 1..Len(sent) :
                   sent[i].event \in {"DETECTED", "CONFIRMED"}
                       /\ sent[i].mark = OtherNumber
    /\ obsLog = ScenarioD
          => /\ evLog = <<"-", "DETECTED">>
             /\ correction_detected
             /\ verification_count = 1
             /\ JustProcessed
                   => (Emitted(sent, "DETECTED") /\ sent[1].mark = OtherNumber)

W_C15 ==
    /\ obsLog = ScenarioD
    /\ Emitted(sent, "DETECTED")
    /\ sent[1].mark = OtherNumber
    /\ correction_detected
    /\ verification_count = 1

\* ----- C16 ---------------------------------------------------------------
BetweenIterations == pc \in {"probe", "sleep"}

\* C16: between iterations, site_down_notified implies that site_down_since
\* is set, and an absent site_down_since implies that site_down_notified is
\* false and consecutive_failures is 0.
T_C16 ==
    BetweenIterations
        => /\ site_down_notified => site_down_since # None
           /\ site_down_since = None
                 => (~site_down_notified /\ consecutive_failures = 0)

W_C16 ==
    /\ pc = "sleep"
    /\ site_down_notified
    /\ site_down_since # None
    /\ consecutive_failures = 1
    /\ unreachRun >= 2

\* ----- C17 ---------------------------------------------------------------
\* C17: verification_count > 0 implies correction_detected, and the count is
\* never negative; initially the flag is false and the count 0; the flag is
\* cleared, and the count lowered, only by a reversion (the placeholder seen
\* while the flag is set), which resets both together to false and 0.
T_C17 ==
    /\ ~correction_detected /\ verification_count = 0
    /\ [](verification_count >= 0)
    /\ [](verification_count > 0 => correction_detected)
    /\ [][((correction_detected /\ ~correction_detected')
             \/ verification_count' < verification_count)
            => /\ pc = "fetch"
               /\ correction_detected
               /\ result_data'.success
               /\ result_data'.mark = CURRENT_WRONG_VALUE
               /\ Emitted(sent', "REVERTED")
               /\ ~correction_detected'
               /\ verification_count' = 0]_vars

W_C17 ==
    /\ JustProcessed
    /\ Emitted(sent, "REVERTED")
    /\ ~correction_detected
    /\ verification_count = 0
    /\ runConfirmed = 0
    /\ total_checks >= 5

\* ----- C18 ---------------------------------------------------------------
corrFields == <<correction_detected, verification_count>>
availFields == <<site_down_since, site_down_notified, consecutive_failures>>

\* C18: an iteration whose probe is unreachable fetches nothing, does not run
\* _process_result and leaves the correction fields as they were;
\* _handle_website_status never changes the correction fields and
\* _process_result never changes the availability fields, so an episode cut
\* by an outage goes on afterwards with the same verification_count.
T_C18 ==
    /\ [][pc = "probe" => (UNCHANGED corrFields /\ UNCHANGED result_data)]_vars
    /\ [][(pc = "probe" /\ ~is_accessible') => pc' = "sleep"]_vars
    /\ [][(pc = "fetch" \/ pc = "except") => UNCHANGED availFields]_vars
    /\ [][pc = "sleep" => (UNCHANGED corrFields /\ UNCHANGED availFields)]_vars
    /\ []((pc = "sleep" /\ ~is_accessible)
            => \A i \in 1..Len(iterLog) : iterLog[i] \notin CorrectionEvents)

W_C18 ==
    /\ pc = "sleep"
    /\ ~is_accessible
    /\ unreachRun = 2
    /\ correction_detected
    /\ verification_count = 2
    /\ site_down_grace = CHECK_INTERVAL
    /\ site_down_notified

\* ----- C19 ---------------------------------------------------------------
\* a value that is not the placeholder, not the expected mark and not a number
OtherValue(mark) ==
    mark # CURRENT_WRONG_VALUE /\ mark # EXPECTED_MARK /\ ~IsDigit(mark)

\* C19: on a value that is neither the placeholder, the expected mark nor a
\* number, _process_result with the flag unset sends CHANGED once, carrying the
\* value, and sets the flag; with the flag set it sends nothing and changes
\* nothing; verification_count is unchanged either way, so such a value never
\* brings CONFIRMED.
T_C19 ==
    /\ [][(pc = "fetch" /\ ~RaisedInFetch'
             /\ result_data'.success /\ OtherValue(result_data'.mark))
            => /\ verification_count' = verification_count
               /\ correction_detected'
               /\ IF ~correction_detected
                  THEN /\ Len(sent') = 1
                       /\ sent'[1].event = "CHANGED"
                       /\ sent'[1].mark = result_data'.mark
                  ELSE sent' = <<>>]_vars
    /\ []((JustProcessed /\ result_data.success /\ OtherValue(result_data.mark))
            => /\ ~Emitted(sent, "CONFIRMED")
               /\ ~Emitted(sent, "DETECTED")
               /\ correction_detected)

W_C19 ==
    /\ JustProcessed
    /\ result_data.success
    /\ OtherValue(result_data.mark)
    /\ Emitted(sent, "CHANGED")
    /\ correction_detected
    /\ verification_count = 0

\* ----- C20 ---------------------------------------------------------------
\* C20: a call of _send_telegram_message makes at most MAX_TELEGRAM_RETRIES
\* attempts, goes on to the next one only after a failed one, stops at the
\* first success and returns True, and returns False only after the last
\* attempt failed; it returns to its caller whether the attempts fail by an
\* exception or by a non-200 answer.
T_C20 ==
    \A i \in 1..Len(sent) :
       LET m == sent[i]
       IN  /\ m.attempts \in 1..MAX_TELEGRAM_RETRIES
           /\ Len(m.outcomes) = m.attempts
           /\ \A k \in 1..(m.attempts - 1) : m.outcomes[k] \in {"http", "exc"}
           /\ m.ret \in BOOLEAN
           /\ m.ret <=> m.outcomes[m.attempts] = "ok"
           /\ ~m.ret => /\ m.attempts = MAX_TELEGRAM_RETRIES
                        /\ \A k \in 1..MAX_TELEGRAM_RETRIES :
                              m.outcomes[k] \in {"http", "exc"}

W_C20 ==
    /\ Len(sent) = 1
    /\ sent[1].outcomes = <<"exc", "http", "exc">>
    /\ ~sent[1].ret
    /\ sent[1].attempts = MAX_TELEGRAM_RETRIES
    /\ total_checks >= 1

\* ----- C21 ---------------------------------------------------------------
\* the classes of a cell text, as they are worded
IsPlaceholder(v) == v = CURRENT_WRONG_VALUE
IsExpected(v) == v = EXPECTED_MARK
IsOtherNumeric(v) == IsDigit(v) /\ v # CURRENT_WRONG_VALUE
IsOtherNonNumeric(v) == ~IsPlaceholder(v) /\ ~IsExpected(v) /\ ~IsOtherNumeric(v)
ClassesOf(v) ==
    {c \in {"IsPlaceholder", "IsExpected", "IsOtherNumeric", "IsOtherNonNumeric"} :
        \/ c = "IsPlaceholder" /\ IsPlaceholder(v)
        \/ c = "IsExpected" /\ IsExpected(v)
        \/ c = "IsOtherNumeric" /\ IsOtherNumeric(v)
        \/ c = "IsOtherNonNumeric" /\ IsOtherNonNumeric(v)}

\* C21 as worded: every found value is in exactly one of the four classes.
CX_C21 ==
    (JustProcessed /\ result_data.success)
        => Cardinality(ClassesOf(result_data.mark)) = 1

\* a number that is neither the placeholder nor the expected mark
IsOtherNumericOnly(v) == IsOtherNumeric(v) /\ ~IsExpected(v)
ClassOf(v) ==
    {c \in {"IsPlaceholder", "IsExpected", "IsOtherNumeric", "IsOtherNonNumeric"} :
        \/ c = "IsPlaceholder" /\ IsPlaceholder(v)
        \/ c = "IsExpected" /\ IsExpected(v)
        \/ c = "IsOtherNumeric" /\ IsOtherNumericOnly(v)
        \/ c = "IsOtherNonNumeric" /\ IsOtherNonNumeric(v)}

\* C21 (amended): with IsOtherNumeric read as a number equal to neither the
\* placeholder nor the expected mark, every found value is in exactly one
\* class, and _process_result does what the branch of that class does: the
\* reversion branch for IsPlaceholder, the detection / verification branch for
\* IsExpected and IsOtherNumeric, the CHANGED branch for IsOtherNonNumeric.
T_C21 ==
    /\ []((JustProcessed /\ result_data.success)
            => Cardinality(ClassOf(result_data.mark)) = 1)
    /\ [][(pc = "fetch" /\ ~RaisedInFetch' /\ result_data'.success)
            => LET v == result_data'.mark
                   events == {sent'[i].event : i \in 1..Len(sent')}
               IN  /\ IsPlaceholder(v)
                        => /\ ~correction_detected'
                           /\ events = IF correction_detected
                                       THEN {"REVERTED"} ELSE {}
                   /\ (IsExpected(v) \/ IsOtherNumericOnly(v))
                        => /\ correction_detected'
                           /\ verification_count' =
                                 IF correction_detected
                                 THEN verification_count + 1 ELSE 1
                           /\ events \subseteq {"DETECTED", "CONFIRMED"}
                   /\ IsOtherNonNumeric(v)
                        => /\ correction_detected'
                           /\ verification_count' = verification_count
                           /\ events = IF correction_detected
                                       THEN {} ELSE {"CHANGED"}]_vars

W_C21 ==
    /\ JustProcessed
    /\ result_data.success
    /\ IsExpected(result_data.mark)
    /\ IsOtherNumeric(result_data.mark)
    /\ ClassOf(result_data.mark) = {"IsExpected"}
    /\ verification_count = 2

\* ----- C22 ---------------------------------------------------------------
\* C22: consecutive_failures is always 0 or 1; it is incremented only by the
\* unreachable probe that sets site_down_since (the first of an outage), not
\* by the following unreachable probes of that outage, and every reachable
\* probe resets it to 0.
T_C22 ==
    /\ [](consecutive_failures \in {0, 1})
    /\ [][consecutive_failures' > consecutive_failures
            => /\ pc = "probe"
               /\ ~is_accessible'
               /\ site_down_since = None
               /\ site_down_since' = now
               /\ consecutive_failures' = consecutive_failures + 1]_vars
    /\ [][(pc = "probe" /\ ~is_accessible' /\ site_down_since # None)
            => /\ consecutive_failures' = consecutive_failures
               /\ site_down_since' = site_down_since]_vars
    /\ [][(pc = "probe" /\ is_accessible') => consecutive_failures' = 0]_vars

W_C22 ==
    /\ JustProbed
    /\ ~is_accessible
    /\ unreachRun = 3
    /\ consecutive_failures = 1
    /\ site_down_since # None
    /\ now - site_down_since >= 2 * CHECK_INTERVAL

\* ----- C23 ---------------------------------------------------------------
\* C23: in each maximal run of non-placeholder observed values at most one of
\* DETECTED and CHANGED is sent, and it is sent on the first found value of
\* the run.  So a run opened by a non-numeric value (CHANGED, the count stays
\* 0) sends no DETECTED when numbers follow, and sends CONFIRMED on the 3rd
\* number of the run, with no DETECTED before it.
T_C23 ==
    /\ [](runDetected + runChanged <= 1)
    /\ [](runOpened \in {"none", "DETECTED", "CHANGED"})
    /\ [](runDetected = (IF runOpened = "DETECTED" THEN 1 ELSE 0))
    /\ [](runChanged = (IF runOpened = "CHANGED" THEN 1 ELSE 0))
    /\ [][(pc = "fetch"
             /\ (Emitted(sent', "DETECTED") \/ Emitted(sent', "CHANGED")))
            => /\ runOpened = "none"
               /\ result_data'.success
               /\ result_data'.mark # CURRENT_WRONG_VALUE]_vars
    /\ [](runOpened = "CHANGED"
            => /\ runDetected = 0
               /\ verification_count = runConfirming
               /\ runConfirmed = (IF runConfirming >= 3 THEN 1 ELSE 0)
               /\ JustProcessed
                    => (Emitted(sent, "CONFIRMED")
                          <=> /\ result_data.success
                              /\ Confirming(result_data.mark)
                              /\ runConfirming = 3))

W_C23 ==
    /\ JustProcessed
    /\ runOpened = "CHANGED"
    /\ runChanged = 1
    /\ runDetected = 0
    /\ Emitted(sent, "CONFIRMED")
    /\ verification_count = 3

====
